---- MODULE Spec2Model ----
(***************************************************************************)
(* VisionMate (src/src/components/VisionMate.tsx): the capture ->          *)
(* processing -> feedback pipeline of the component.                       *)
(*                                                                         *)
(* The file holds two revisions of the component, one after the other:     *)
(*   revision 1, lines 28-612   (simulateAdvancedDetection,                 *)
(*                               speakWithEnhancedVoice, isSpeaking)       *)
(*   revision 2, lines 637-1228 (simulateAdvancedProcessing with stages,   *)
(*                               enhancedTextToSpeech, processingProgress) *)
(* `variant` says which revision is mounted.  handleFileSelect,            *)
(* startLiveRecording and stopLiveRecording are the same code in both.     *)
(*                                                                         *)
(* Scheduling is the browser's event loop: a macrotask (a user event, a    *)
(* timer, a permission answer, a speech-engine event) runs to completion,  *)
(* then every queued microtask (the continuation of an `await`) runs       *)
(* before the next macrotask.  `microtasks` is that queue; every macrotask *)
(* action is guarded by it being empty.                                    *)
(***************************************************************************)
EXTENDS Integers, Sequences, FiniteSets, TLC

VARIABLES
  variant,             \* 1 or 2: the revision of the component that is mounted
  selectedFile,        \* useState<File | null>
  isProcessing,        \* useState(false)
  result,              \* useState<ProcessingResult | null>
  processingProgress,  \* useState(0), revision 2; in units of 1/NumStages percent
  objectUrls,          \* URL.createObjectURL results not revoked
  isSpeaking,          \* useState(false), revision 1
  isRecording,         \* useState(false)
  mediaStream,         \* useState<MediaStream | null>: a stream id, or 0
  mediaRecorder,       \* useState<MediaRecorder | null>: a recorder id, or 0
  previewSrc,          \* liveVideoRef.current.srcObject: a stream id, or 0
  runs,                \* the handleSubmit invocations in flight, one per slot
  microtasks,          \* queued continuations of resolved awaits
  voiceWaiters,        \* speak calls suspended on the 'voiceschanged' listener
  speechTimers,        \* number of pending setTimeout(..., 500) of revision 2's handleSubmit
  voicesLoaded,        \* speechSynthesis.getVoices().length > 0
  synthQueue,          \* speechSynthesis: utterances spoken (head) or queued
  synthCancelled,      \* utterances removed by cancel() whose event is not yet dispatched
  speechEvent,         \* history: the last thing that happened to a speech session
  camRequests,         \* getUserMedia promises not yet settled
  liveStreams,         \* camera streams whose tracks are live
  recState,            \* per recorder: "none", "recording" or "stopping"
  toast,               \* the last notification raised with toast({...})
  numDetections,       \* the detection loop's bound while it runs, else 0
  detections,          \* the array the detection loop builds
  generated,           \* what the generator returned with that array, or NoGenerated
  voices,              \* speechSynthesis.getVoices()
  utteranceVoice,      \* utterance.voice of the utterance built last, or NoVoice
  resultDetections,    \* result.detections (revision 1: detectedObjects)
  canvas               \* the overlay: its size and the boxes on it

vars == << variant, selectedFile, isProcessing, result, processingProgress, objectUrls,
           isSpeaking, isRecording, mediaStream, mediaRecorder, previewSrc,
           runs, microtasks, voiceWaiters, speechTimers, voicesLoaded,
           synthQueue, synthCancelled, speechEvent, camRequests, liveStreams,
           recState, toast, numDetections, detections, generated, voices,
           utteranceVoice, resultDetections, canvas >>

genVars == << numDetections, detections, generated >>
voiceVars == << voices, utteranceVoice >>
overlayVars == << resultDetections, canvas >>
simVars == << genVars, voiceVars, overlayVars >>

\* ---------------------------------------------------------------- bounds
MaxRuns == 2        \* handleSubmit invocations in flight at once
MaxSpeech == 2      \* utterances requested and not yet ended (see SpeechLoad)
MaxCapture == 1     \* Spec: camera requests pending plus streams in use
MaxRequests == 2    \* SpecCapture: unanswered camera permission requests at once
MaxStreams == 2     \* camera streams / recorders in use at once
MaxUrls == 2        \* object URLs created
MaxDetections == 2  \* detections generated for one result
MaxVoices == 3      \* voices the engine lists
Grain == 4          \* Math.random() yields k / Grain, and a number v is kept as v * Grain

\* ------------------------------------------------------------- constants
NoFile == "null"
NoResult == [file |-> "null"]
UploadFiles == {"a.mp4", "b.mp4"}

\* utterance.voice left null: the engine speaks with its default voice.
NoVoice == [lang |-> "", name |-> ""]

\* result is null (revision 1: detectedObjects is its initial []).
NoDetections == [present |-> FALSE, list |-> << >>]

\* Nothing is drawn over the video.
NoCanvas == [width |-> 0, height |-> 0, boxes |-> {}]

\* The generator has returned nothing (yet).
NoGenerated ==
  [description_text |-> [word |-> "", items |-> << >>, closing |-> << >>],
   confidence_score |-> -1]
RunIds == 1 .. MaxRuns
StreamIds == 1 .. MaxStreams

\* stages.length in simulateAdvancedProcessing
NumStages == 7

\* new File([blob], 'recorded-video.webm' / 'neural-capture.webm', ...)
RecordedFile == IF variant = 1 THEN "recorded-video.webm" ELSE "neural-capture.webm"

\* A file the picker can also deliver: accept="video/*" only presets the
\* dialog's filter, the user may pick any file.
OtherFiles == {"notes.txt"}

Files == UploadFiles \cup OtherFiles \cup {"recorded-video.webm", "neural-capture.webm"}

\* File.type: the declared MIME type.
FileType(f) ==
  IF f \in {"recorded-video.webm", "neural-capture.webm"} THEN "video/webm"
  ELSE IF f \in UploadFiles THEN "video/mp4"
  ELSE "text/plain"

NoToast == [title |-> "none", destructive |-> FALSE, pct |-> 0]
Toast(title, destructive) == [title |-> title, destructive |-> destructive, pct |-> 0]

IdleRun == [pc |-> "idle", file |-> NoFile, stage |-> 0, emitted |-> << >>, ok |-> TRUE]

\* The event loop runs a macrotask only when no microtask is queued.
MacroTask == microtasks = << >>

Min(S) == CHOOSE x \in S : \A y \in S : x <= y

\* --------------------------------------------------------------- Init
TypeOK ==
  /\ variant \in {1, 2}
  /\ selectedFile \in Files \cup {NoFile}
  /\ isProcessing \in BOOLEAN
  /\ result \in [file : Files \cup {NoFile}]
  /\ processingProgress \in 0 .. (100 * NumStages)
  /\ objectUrls \in Nat
  /\ isSpeaking \in BOOLEAN
  /\ isRecording \in BOOLEAN
  /\ mediaStream \in StreamIds \cup {0}
  /\ mediaRecorder \in StreamIds \cup {0}
  /\ previewSrc \in StreamIds \cup {0}
  /\ DOMAIN runs = RunIds
  /\ \A r \in RunIds : runs[r].pc \in {"idle", "detecting", "stages", "resume", "awaitSpeak"}
  /\ voicesLoaded \in BOOLEAN
  /\ synthCancelled \in Nat
  /\ speechEvent \in {"none", "speak", "end", "error", "cancel"}
  /\ camRequests \in Nat
  /\ liveStreams \subseteq StreamIds
  /\ recState \in [StreamIds -> {"none", "recording", "stopping"}]
  /\ numDetections \in 0 .. MaxDetections
  /\ Len(detections) <= MaxDetections
  /\ Len(voices) <= MaxVoices
  /\ utteranceVoice.lang \in {"", "en-US", "de-DE"}
  /\ resultDetections.present \in BOOLEAN
  /\ Len(resultDetections.list) <= MaxDetections
  /\ Cardinality(canvas.boxes) <= MaxDetections

Init ==
  /\ variant \in {1, 2}
  /\ selectedFile = NoFile
  /\ isProcessing = FALSE
  /\ result = NoResult
  /\ processingProgress = 0
  /\ objectUrls = 0
  /\ isSpeaking = FALSE
  /\ isRecording = FALSE
  /\ mediaStream = 0
  /\ mediaRecorder = 0
  /\ previewSrc = 0
  /\ runs = [r \in RunIds |-> IdleRun]
  /\ microtasks = << >>
  /\ voiceWaiters = << >>
  /\ speechTimers = 0
  /\ voicesLoaded \in BOOLEAN
  /\ synthQueue = << >>
  /\ synthCancelled = 0
  /\ speechEvent = "none"
  /\ camRequests = 0
  /\ liveStreams = {}
  /\ recState = [s \in StreamIds |-> "none"]
  /\ toast = NoToast
  /\ numDetections = 0
  /\ detections = << >>
  /\ generated = NoGenerated
  /\ voices = << >>
  /\ utteranceVoice = NoVoice
  /\ resultDetections = NoDetections
  /\ canvas = NoCanvas

pipelineVars == << selectedFile, isProcessing, result, processingProgress, objectUrls,
                   runs >>
speechVars == << isSpeaking, voiceWaiters, speechTimers, voicesLoaded, synthQueue,
                 synthCancelled, speechEvent >>
captureVars == << isRecording, mediaStream, mediaRecorder, previewSrc, camRequests,
                  liveStreams, recState >>

\* ------------------------------------------------ window.speechSynthesis
\* speechSynthesis.speaking
Speaking == synthQueue # << >>

\* new SpeechSynthesisUtterance(text), not yet begun; the text does not affect
\* the control flow and is left out.
Utterance == [started |-> FALSE]

ActiveRuns == {r \in RunIds : runs[r].pc # "idle"}

\* Utterances that exist or are still going to be created: the ones in the
\* engine, the cancelled ones whose event is pending, and one for every run,
\* suspended speak call and speech timer.
SpeechLoad ==
  Len(synthQueue) + synthCancelled + Len(voiceWaiters) + speechTimers
    + Cardinality(ActiveRuns)
    + Cardinality({i \in DOMAIN microtasks : microtasks[i].kind = "speakResume"})

Task(kind, run) == [kind |-> kind, run |-> run]

\* ----------------------------------------------------- pipeline handlers
\* handleFileSelect: event.target.files?.[0]; a file is adopted, nothing else
\* is touched.
handleFileSelect(f) ==
  /\ MacroTask
  /\ IF f # NoFile
       THEN /\ selectedFile' = f
            /\ toast' = Toast("File Selected", FALSE)
       ELSE UNCHANGED << selectedFile, toast >>
  /\ UNCHANGED << variant, simVars, isProcessing, result, processingProgress, objectUrls, runs,
                  microtasks, speechVars, captureVars >>

\* Off by one: i / stages.length * 100.
ProgressFromZero(i) == i * 100

\* (i + 1) / stages.length * 100, kept exact: the value times NumStages.
Progress(i) == (i + 1) * 100

\* Math.round((i + 1) / stages.length * 100)
RoundedPct(i) == (2 * Progress(i) + NumStages) \div (2 * NumStages)

StageToast(i) == [title |-> "Stage", destructive |-> FALSE, pct |-> RoundedPct(i)]

\* handleSubmit without its `if (!selectedFile) { ...; return; }`.
handleSubmitNoCheck ==
  /\ MacroTask
  /\ RunIds \ ActiveRuns # {}
  /\ isProcessing' = TRUE
  /\ runs' = [runs EXCEPT ![Min(RunIds \ ActiveRuns)] =
                [pc |-> IF variant = 1 THEN "detecting" ELSE "stages",
                 file |-> selectedFile, stage |-> 0,
                 emitted |-> << >>, ok |-> TRUE]]
  /\ processingProgress' = IF variant = 2 THEN 0 ELSE processingProgress
  /\ UNCHANGED << variant, simVars, selectedFile, result, objectUrls, microtasks, speechVars,
                  captureVars, toast >>

\* handleSubmit up to its first await.  Revision 2 enters
\* simulateAdvancedProcessing, which resets the progress before its first delay.
handleSubmit ==
  /\ MacroTask
  /\ IF selectedFile = NoFile
       THEN /\ toast' = Toast("No File Selected", TRUE)
            /\ UNCHANGED << isProcessing, runs, processingProgress >>
       ELSE /\ RunIds \ ActiveRuns # {}
            /\ isProcessing' = TRUE
            /\ runs' = [runs EXCEPT ![Min(RunIds \ ActiveRuns)] =
                          [pc |-> IF variant = 1 THEN "detecting" ELSE "stages",
                           file |-> selectedFile, stage |-> 0,
                           emitted |-> << >>, ok |-> TRUE]]
            /\ processingProgress' = IF variant = 2 THEN 0 ELSE processingProgress
            /\ UNCHANGED toast
  /\ UNCHANGED << variant, simVars, selectedFile, result, objectUrls, microtasks, speechVars,
                  captureVars >>

\* simulateAdvancedDetection: the 3000 ms delay elapses, the rest of the
\* function runs (URL.createObjectURL makes a URL that nothing revokes, or
\* throws) and its promise settles.
simulateAdvancedDetection(r) ==
  /\ MacroTask
  /\ variant = 1
  /\ runs[r].pc = "detecting"
  /\ \E ok \in BOOLEAN :
       /\ runs' = [runs EXCEPT ![r].pc = "resume", ![r].ok = ok]
       /\ objectUrls' = IF ok THEN objectUrls + 1 ELSE objectUrls
  /\ microtasks' = << Task("submitResume", r) >>
  /\ UNCHANGED << variant, simVars, selectedFile, isProcessing, result, processingProgress,
                  speechVars, captureVars, toast >>

\* simulateAdvancedProcessing: one pass of the stage loop (the 600 ms delay
\* elapses, progress is set, the stage is announced); after the last pass the
\* rest of the function runs and its promise settles.
simulateAdvancedProcessing(r) ==
  /\ MacroTask
  /\ variant = 2
  /\ runs[r].pc = "stages"
  /\ processingProgress' = Progress(runs[r].stage)
  /\ toast' = StageToast(runs[r].stage)
  /\ IF runs[r].stage + 1 < NumStages
       THEN /\ runs' = [runs EXCEPT ![r].stage = @ + 1,
                                    ![r].emitted = Append(@, Progress(runs[r].stage))]
            /\ UNCHANGED << microtasks, objectUrls >>
       ELSE /\ \E ok \in BOOLEAN :
                 /\ runs' = [runs EXCEPT ![r].stage = @ + 1,
                                         ![r].emitted = Append(@, Progress(runs[r].stage)),
                                         ![r].pc = "resume", ![r].ok = ok]
                 /\ objectUrls' = IF ok THEN objectUrls + 1 ELSE objectUrls
            /\ microtasks' = << Task("submitResume", r) >>
  /\ UNCHANGED << variant, simVars, selectedFile, isProcessing, result, speechVars, captureVars >>

\* speakWithEnhancedVoice up to its await: cancel what is being spoken, raise
\* isSpeaking, then wait for the voice list (a resolved promise when voices are
\* loaded, the 'voiceschanged' listener otherwise).  `rest` is the microtask
\* queue the continuation is appended to.
speakWithEnhancedVoice(caller, rest) ==
  /\ synthCancelled' = synthCancelled + Len(synthQueue)
  /\ synthQueue' = << >>
  /\ isSpeaking' = TRUE
  /\ speechEvent' = "speak"
  /\ IF voicesLoaded
       THEN /\ microtasks' = Append(rest, Task("speakResume", caller))
            /\ UNCHANGED voiceWaiters
       ELSE /\ microtasks' = rest
            /\ voiceWaiters' = Append(voiceWaiters, Task("speakResume", caller))

\* handleSubmit resumed, with a finally block that lacks setProcessingProgress(0).
handleSubmitResumeNoReset(r) ==
  /\ microtasks # << >>
  /\ Head(microtasks) = Task("submitResume", r)
  /\ IF ~runs[r].ok
       THEN /\ toast' = Toast("Processing Failed", TRUE)
            /\ isProcessing' = FALSE
            /\ runs' = [runs EXCEPT ![r] = IdleRun]
            /\ microtasks' = Tail(microtasks)
            /\ UNCHANGED << result, processingProgress, speechVars >>
       ELSE /\ result' = [file |-> runs[r].file]
            /\ IF variant = 1
                 THEN /\ speakWithEnhancedVoice(r, Tail(microtasks))
                      /\ runs' = [runs EXCEPT ![r].pc = "awaitSpeak"]
                      /\ UNCHANGED << isProcessing, processingProgress, speechTimers,
                                      voicesLoaded, toast >>
                 ELSE /\ speechTimers' = speechTimers + 1
                      /\ toast' = Toast("Processing Complete", FALSE)
                      /\ isProcessing' = FALSE
                      /\ runs' = [runs EXCEPT ![r] = IdleRun]
                      /\ microtasks' = Tail(microtasks)
                      /\ UNCHANGED << processingProgress, isSpeaking, voiceWaiters,
                                      voicesLoaded, synthQueue, synthCancelled,
                                      speechEvent >>
  /\ UNCHANGED << variant, simVars, selectedFile, objectUrls, captureVars >>

\* handleSubmit resumed after `await simulate...(selectedFile)`.
\* Revision 1: setResult, then `await speakWithEnhancedVoice(...)`.
\* Revision 2: setResult, schedule the speech, announce, and the finally block.
\* On a throw: the catch block and the finally block.
handleSubmitResume(r) ==
  /\ microtasks # << >>
  /\ Head(microtasks) = Task("submitResume", r)
  /\ IF ~runs[r].ok
       THEN /\ toast' = Toast("Processing Failed", TRUE)
            /\ isProcessing' = FALSE
            /\ processingProgress' = IF variant = 2 THEN 0 ELSE processingProgress
            /\ runs' = [runs EXCEPT ![r] = IdleRun]
            /\ microtasks' = Tail(microtasks)
            /\ UNCHANGED << result, speechVars >>
       ELSE /\ result' = [file |-> runs[r].file]
            /\ IF variant = 1
                 THEN /\ speakWithEnhancedVoice(r, Tail(microtasks))
                      /\ runs' = [runs EXCEPT ![r].pc = "awaitSpeak"]
                      /\ UNCHANGED << isProcessing, processingProgress, speechTimers,
                                      voicesLoaded, toast >>
                 ELSE /\ speechTimers' = speechTimers + 1
                      /\ toast' = Toast("Processing Complete", FALSE)
                      /\ isProcessing' = FALSE
                      /\ processingProgress' = 0
                      /\ runs' = [runs EXCEPT ![r] = IdleRun]
                      /\ microtasks' = Tail(microtasks)
                      /\ UNCHANGED << isSpeaking, voiceWaiters, voicesLoaded,
                                      synthQueue, synthCancelled, speechEvent >>
  /\ UNCHANGED << variant, simVars, selectedFile, objectUrls, captureVars >>

\* speakWithEnhancedVoice resumed after the voice wait: the utterance is built
\* and handed to the engine; the awaiting handleSubmit, if any, resumes next.
speakWithEnhancedVoiceResume ==
  /\ microtasks # << >>
  /\ Head(microtasks).kind = "speakResume"
  /\ synthQueue' = Append(synthQueue, Utterance)
  /\ microtasks' =
       IF Head(microtasks).run # 0
         THEN Append(Tail(microtasks), Task("submitTail", Head(microtasks).run))
         ELSE Tail(microtasks)
  /\ UNCHANGED << variant, simVars, pipelineVars, isSpeaking, voiceWaiters, speechTimers,
                  voicesLoaded, synthCancelled, speechEvent, captureVars, toast >>

\* Revision 1's handleSubmit resumed after `await speakWithEnhancedVoice(...)`:
\* the completion toast and the finally block.
handleSubmitTail(r) ==
  /\ microtasks # << >>
  /\ Head(microtasks).kind = "submitTail"
  /\ Head(microtasks).run = r
  /\ toast' = Toast("Processing Complete", FALSE)
  /\ isProcessing' = FALSE
  /\ runs' = [runs EXCEPT ![r] = IdleRun]
  /\ microtasks' = Tail(microtasks)
  /\ UNCHANGED << variant, simVars, selectedFile, result, processingProgress, objectUrls,
                  speechVars, captureVars >>

\* ------------------------------------------------------- speech feedback
\* enhancedTextToSpeech without its window.speechSynthesis.cancel().
enhancedTextToSpeechNoCancel ==
  /\ synthCancelled' = synthCancelled
  /\ synthQueue' = Append(synthQueue, Utterance)
  /\ speechEvent' = "speak"

\* enhancedTextToSpeech (revision 2): cancel(), build the utterance, speak().
enhancedTextToSpeech ==
  /\ synthCancelled' = synthCancelled + Len(synthQueue)
  /\ synthQueue' = << Utterance >>
  /\ speechEvent' = "speak"

\* The callback of setTimeout(() => enhancedTextToSpeech(...), 500).
speechTimerFires ==
  /\ MacroTask
  /\ speechTimers > 0
  /\ enhancedTextToSpeech
  /\ speechTimers' = speechTimers - 1
  /\ UNCHANGED << variant, simVars, pipelineVars, microtasks, isSpeaking, voiceWaiters,
                  voicesLoaded, captureVars, toast >>

\* onClick of "Replay Neural Voice" (revision 2, rendered when result is set).
replayHandler ==
  /\ MacroTask
  /\ variant = 2
  /\ result # NoResult
  /\ enhancedTextToSpeech
  /\ UNCHANGED << variant, simVars, pipelineVars, microtasks, isSpeaking, voiceWaiters,
                  speechTimers, voicesLoaded, captureVars, toast >>

\* onClick of the two play buttons (revision 1, rendered when result is set):
\* result && speakWithEnhancedVoice(result.description_text).
playAudioHandler ==
  /\ MacroTask
  /\ variant = 1
  /\ result # NoResult
  /\ speakWithEnhancedVoice(0, << >>)
  /\ UNCHANGED << variant, simVars, pipelineVars, speechTimers, voicesLoaded, captureVars, toast >>

\* onClick of "Stop" (revision 1): speechSynthesis.cancel().
stopSpeechHandler ==
  /\ MacroTask
  /\ variant = 1
  /\ result # NoResult
  /\ synthCancelled' = synthCancelled + Len(synthQueue)
  /\ synthQueue' = << >>
  /\ speechEvent' = "cancel"
  /\ UNCHANGED << variant, simVars, pipelineVars, microtasks, isSpeaking, voiceWaiters,
                  speechTimers, voicesLoaded, captureVars, toast >>

\* The engine's voice list populates: 'voiceschanged' fires and every
\* { once: true } listener resolves its promise, in registration order.
voiceschanged ==
  /\ MacroTask
  /\ ~voicesLoaded
  /\ voicesLoaded' = TRUE
  /\ microtasks' = voiceWaiters
  /\ voiceWaiters' = << >>
  /\ UNCHANGED << variant, simVars, pipelineVars, isSpeaking, speechTimers, synthQueue,
                  synthCancelled, speechEvent, captureVars, toast >>

\* The head utterance begins to be spoken: utterance.onstart (revision 2 raises
\* a toast, revision 1 sets no onstart).
utteranceStart ==
  /\ MacroTask
  /\ synthQueue # << >>
  /\ ~Head(synthQueue).started
  /\ synthQueue' = [synthQueue EXCEPT ![1].started = TRUE]
  /\ toast' = IF variant = 2 THEN Toast("Audio Feedback Active", FALSE) ELSE toast
  /\ UNCHANGED << variant, simVars, pipelineVars, microtasks, isSpeaking, voiceWaiters,
                  speechTimers, voicesLoaded, synthCancelled, speechEvent, captureVars >>

\* onend / onerror without their setIsSpeaking(false).
utteranceCallbackKeep(event) ==
  /\ isSpeaking' = isSpeaking
  /\ speechEvent' = event

\* utterance.onend / utterance.onerror: revision 1 clears isSpeaking, revision 2
\* only logs.
utteranceCallback(event) ==
  /\ isSpeaking' = IF variant = 1 THEN FALSE ELSE isSpeaking
  /\ speechEvent' = event

\* The utterance being spoken completes: it leaves the queue, onend runs.
utteranceEnd ==
  /\ MacroTask
  /\ synthQueue # << >>
  /\ Head(synthQueue).started
  /\ synthQueue' = Tail(synthQueue)
  /\ utteranceCallback("end")
  /\ UNCHANGED << variant, simVars, pipelineVars, microtasks, voiceWaiters, speechTimers,
                  voicesLoaded, synthCancelled, captureVars, toast >>

\* The engine fails on the head utterance: it leaves the queue, onerror runs.
utteranceError ==
  /\ MacroTask
  /\ synthQueue # << >>
  /\ synthQueue' = Tail(synthQueue)
  /\ utteranceCallback("error")
  /\ UNCHANGED << variant, simVars, pipelineVars, microtasks, voiceWaiters, speechTimers,
                  voicesLoaded, synthCancelled, captureVars, toast >>

\* The event of an utterance that cancel() removed is dispatched (onerror with
\* 'interrupted' / 'canceled', or onend, depending on the engine).
cancelledEvent ==
  /\ MacroTask
  /\ synthCancelled > 0
  /\ synthCancelled' = synthCancelled - 1
  /\ utteranceCallback("error")
  /\ UNCHANGED << variant, simVars, pipelineVars, microtasks, voiceWaiters, speechTimers,
                  voicesLoaded, synthQueue, captureVars, toast >>

\* ---------------------------------------------------------- live capture
\* Stream / recorder ids that still name something.
InUse ==
  (liveStreams \cup {mediaStream, mediaRecorder, previewSrc}
     \cup {s \in StreamIds : recState[s] # "none"}) \ {0}

\* startLiveRecording up to `await navigator.mediaDevices.getUserMedia(...)`.
startLiveRecording ==
  /\ MacroTask
  /\ camRequests' = camRequests + 1
  /\ UNCHANGED << variant, simVars, pipelineVars, microtasks, speechVars, isRecording,
                  mediaStream, mediaRecorder, previewSrc, liveStreams, recState, toast >>

\* startLiveRecording without its try / catch: a refusal is an unhandled
\* rejection and raises no notification.
startLiveRecordingResumeNoCatch(granted, recorderOk) ==
  /\ MacroTask
  /\ camRequests > 0
  /\ camRequests' = camRequests - 1
  /\ IF granted
       THEN /\ StreamIds \ InUse # {}
            /\ LET s == Min(StreamIds \ InUse) IN
                 /\ liveStreams' = liveStreams \cup {s}
                 /\ mediaStream' = s
                 /\ previewSrc' = IF isRecording THEN s ELSE previewSrc
                 /\ IF recorderOk
                      THEN /\ mediaRecorder' = s
                           /\ recState' = [recState EXCEPT ![s] = "recording"]
                           /\ isRecording' = TRUE
                           /\ toast' = Toast("Recording Started", FALSE)
                      ELSE UNCHANGED << mediaRecorder, recState, isRecording, toast >>
       ELSE UNCHANGED << liveStreams, mediaStream, previewSrc, mediaRecorder,
                         recState, isRecording, toast >>
  /\ UNCHANGED << variant, simVars, pipelineVars, microtasks, speechVars >>

\* startLiveRecording resumed when getUserMedia settles.  granted: the stream is
\* stored and bound to the preview element if one is mounted (it is rendered
\* only while isRecording); new MediaRecorder(...) may throw (recorderOk =
\* FALSE), which lands in the same catch block as a refusal.
startLiveRecordingResume(granted, recorderOk) ==
  /\ MacroTask
  /\ camRequests > 0
  /\ camRequests' = camRequests - 1
  /\ IF granted
       THEN /\ StreamIds \ InUse # {}
            /\ LET s == Min(StreamIds \ InUse) IN
                 /\ liveStreams' = liveStreams \cup {s}
                 /\ mediaStream' = s
                 /\ previewSrc' = IF isRecording THEN s ELSE previewSrc
                 /\ IF recorderOk
                      THEN /\ mediaRecorder' = s
                           /\ recState' = [recState EXCEPT ![s] = "recording"]
                           /\ isRecording' = TRUE
                           /\ toast' = Toast("Recording Started", FALSE)
                      ELSE /\ toast' = Toast("Camera Access Denied", TRUE)
                           /\ UNCHANGED << mediaRecorder, recState, isRecording >>
       ELSE /\ toast' = Toast("Camera Access Denied", TRUE)
            /\ UNCHANGED << liveStreams, mediaStream, previewSrc, mediaRecorder,
                            recState, isRecording >>
  /\ UNCHANGED << variant, simVars, pipelineVars, microtasks, speechVars >>

\* stopLiveRecording without its getTracks().forEach(track => track.stop()).
stopLiveRecordingKeepTracks ==
  /\ MacroTask
  /\ recState' = IF mediaRecorder # 0
                   THEN [recState EXCEPT ![mediaRecorder] = "stopping"]
                   ELSE recState
  /\ mediaStream' = 0
  /\ previewSrc' = 0
  /\ isRecording' = FALSE
  /\ mediaRecorder' = 0
  /\ UNCHANGED << variant, simVars, pipelineVars, microtasks, speechVars, camRequests,
                  liveStreams, toast >>

\* stopLiveRecording that also clears the selected file.
stopLiveRecordingClearsFile ==
  /\ MacroTask
  /\ recState' = IF mediaRecorder # 0
                   THEN [recState EXCEPT ![mediaRecorder] = "stopping"]
                   ELSE recState
  /\ liveStreams' = liveStreams \ {mediaStream}
  /\ mediaStream' = 0
  /\ previewSrc' = 0
  /\ isRecording' = FALSE
  /\ mediaRecorder' = 0
  /\ selectedFile' = NoFile
  /\ UNCHANGED << variant, simVars, isProcessing, result, processingProgress, objectUrls, runs,
                  microtasks, speechVars, camRequests, toast >>

\* stopLiveRecording: recorder.stop(), the stream's tracks stopped, the preview
\* detached, the state cleared.
stopLiveRecording ==
  /\ MacroTask
  /\ recState' = IF mediaRecorder # 0
                   THEN [recState EXCEPT ![mediaRecorder] = "stopping"]
                   ELSE recState
  /\ liveStreams' = liveStreams \ {mediaStream}
  /\ mediaStream' = 0
  /\ previewSrc' = 0
  /\ isRecording' = FALSE
  /\ mediaRecorder' = 0
  /\ UNCHANGED << variant, simVars, pipelineVars, microtasks, speechVars, camRequests, toast >>

\* recorder.onstop: the chunks become a File, which becomes the selected file.
recorderOnstop(s) ==
  /\ MacroTask
  /\ recState[s] = "stopping"
  /\ recState' = [recState EXCEPT ![s] = "none"]
  /\ selectedFile' = RecordedFile
  /\ toast' = Toast("Recording Saved", FALSE)
  /\ UNCHANGED << variant, simVars, isProcessing, result, processingProgress, objectUrls, runs,
                  microtasks, speechVars, isRecording, mediaStream, mediaRecorder, previewSrc,
                  camRequests, liveStreams >>

\* ------------------------------------------------------ detection results
\* Math.random() is k / Grain for a k in 0 .. Grain - 1.  A number v of the
\* code is kept exactly: a length as the integer v * Grain, a confidence as the
\* integer v * 100 * Grain.
\* The pipeline specifications keep of a result only the file it belongs
\* to; what the detection loop puts into a result is generated in SpecSim.

\* Everything of the component that the generator does not touch.
componentVars == << variant, pipelineVars, microtasks, speechVars, captureVars, toast >>

\* Math.floor(Math.random() * 4) + 2 (revision 2), ... * 5) + 2 (revision 1)
NumDetections(k) == IF variant = 1 THEN (k * 5) \div Grain + 2 ELSE (k * 4) \div Grain + 2

\* The draws of the count for which the array stays within the model's bound.
CountDraws == {k \in 0 .. Grain - 1 : NumDetections(k) <= MaxDetections}

\* The least and the greatest value Math.random() takes.
BoxDraws == {0, Grain - 1}

\* The least value Math.random() takes and one in the middle of its range.
MidDraws == {0, Grain \div 2}

\* Revision 1, bbox in pixels:
\*   x: Math.floor(Math.random() * 400),  y: Math.floor(Math.random() * 300),
\*   width: Math.floor(Math.random() * 100) + 50,
\*   height: Math.floor(Math.random() * 80) + 40
\* Revision 2, in percent:
\*   x: Math.random() * 0.7 * 100,  y: Math.random() * 0.7 * 100,
\*   width: (Math.random() * 0.2 + 0.1) * 100,  height: likewise
BBox(kx, ky, kw, kh) ==
  IF variant = 1
    THEN [x      |-> ((kx * 400) \div Grain) * Grain,
          y      |-> ((ky * 300) \div Grain) * Grain,
          width  |-> ((kw * 100) \div Grain + 50) * Grain,
          height |-> ((kh * 80) \div Grain + 40) * Grain]
    ELSE [x      |-> kx * 70,
          y      |-> ky * 70,
          width  |-> kw * 20 + 10 * Grain,
          height |-> kh * 20 + 10 * Grain]

\* objectTypes of revision 1 and of revision 2 (name and base confidence in
\* hundredths).
objectTypes ==
  IF variant = 1
    THEN << [name |-> "car", confidence |-> 0],
            [name |-> "bike", confidence |-> 0],
            [name |-> "pedestrian", confidence |-> 0],
            [name |-> "traffic_light", confidence |-> 0],
            [name |-> "zebra_crossing", confidence |-> 0],
            [name |-> "bus", confidence |-> 0],
            [name |-> "truck", confidence |-> 0],
            [name |-> "motorcycle", confidence |-> 0] >>
    ELSE << [name |-> "Car", confidence |-> 95],
            [name |-> "Motorcycle", confidence |-> 88],
            [name |-> "Bicycle", confidence |-> 92],
            [name |-> "Person", confidence |-> 97],
            [name |-> "Traffic Light", confidence |-> 85],
            [name |-> "Stop Sign", confidence |-> 93],
            [name |-> "Zebra Crossing", confidence |-> 89] >>

\* objectTypes[Math.floor(Math.random() * objectTypes.length)]
ObjectType(kt) == objectTypes[(kt * Len(objectTypes)) \div Grain + 1]

\* Math.round(v) for the rational v = num / den, den > 0, num >= 0.
Round(num, den) == (2 * num + den) \div (2 * den)

\* Revision 1: Math.round((Math.random() * 0.3 + 0.7) * 100) / 100
\* Revision 2: obj.confidence + (Math.random() - 0.5) * 0.1
Confidence(kt, kc) ==
  IF variant = 1
    THEN Round(30 * kc + 70 * Grain, Grain) * Grain
    ELSE ObjectType(kt).confidence * Grain + 10 * kc - 5 * Grain

\* The object pushed by one pass of the detection loop.
Detection(kt, kc, kx, ky, kw, kh) ==
  [object     |-> ObjectType(kt).name,
   confidence |-> Confidence(kt, kc),
   x          |-> BBox(kx, ky, kw, kh).x,
   y          |-> BBox(kx, ky, kw, kh).y,
   width      |-> BBox(kx, ky, kw, kh).width,
   height     |-> BBox(kx, ky, kw, kh).height]

\* detectedObjects.filter(obj => types of T).length
CountOf(ds, T) == Cardinality({i \in DOMAIN ds : ds[i].object \in T})

\* `${count} ${noun}${count > 1 ? 's' : ''}` when count > 0, else nothing.
Counted(count, noun) ==
  IF count > 0 THEN << [name |-> noun, num |-> count] >> ELSE << >>

\* (d.confidence * 100).toFixed(1), in tenths of a percent.
ToFixed1(confidence) == Round(10 * confidence, Grain)

\* description_text.  The text is kept as its parts: the word that follows the
\* heading ("detected" closes revision 1's list, "Detected" opens revision
\* 2's), the items listed, each a name with its number (a count in revision 1,
\* a percentage in revision 2), and the closing sentences.
\* kv is the draw of revision 2's `Math.random() > 0.5`.
Description(ds, kv) ==
  IF variant = 1
    THEN LET carCount == CountOf(ds, {"car"})
             bikeCount == CountOf(ds, {"bike", "motorcycle"})
             pedestrianCount == CountOf(ds, {"pedestrian"})
             zebraCrossingCount == CountOf(ds, {"zebra_crossing"})
         IN  [word  |-> "detected",
              items |-> Counted(carCount, "car") \o Counted(bikeCount, "bike")
                          \o Counted(pedestrianCount, "pedestrian")
                          \o Counted(zebraCrossingCount, "zebra crossing"),
              closing |->
                (IF zebraCrossingCount > 0
                   THEN << "Zebra crossing available for safe passage." >> ELSE << >>)
                \o (IF carCount > 2
                      THEN << "Heavy traffic detected, exercise caution." >> ELSE << >>)
                \o (IF pedestrianCount > 0
                      THEN << "Other pedestrians nearby." >> ELSE << >>)]
    ELSE [word  |-> "Detected",
          items |-> [i \in DOMAIN ds |->
                       [name |-> ds[i].object, num |-> ToFixed1(ds[i].confidence)]],
          closing |-> << IF 2 * kv > Grain THEN "Navigation path is CLEAR."
                                           ELSE "Navigation path is REQUIRES CAUTION." >>]

RECURSIVE SumConfidence(_, _)
\* detectedObjects.reduce((sum, obj) => sum + obj.confidence, 0), over the
\* first n objects.
SumConfidence(ds, n) ==
  IF n = 0 THEN 0 ELSE SumConfidence(ds, n - 1) + ds[n].confidence

\* Revision 1: Math.round(overallConfidence * 100) / 100 with overallConfidence
\* the sum over the length.  Revision 2's result has no such field (-1).
ConfidenceScore(ds) ==
  IF variant = 1
    THEN Round(SumConfidence(ds, Len(ds)), Grain * Len(ds)) * Grain
    ELSE -1

\* const numDetections = ...; const detections = [];
detectionLoopStart(k) ==
  /\ numDetections = 0
  /\ numDetections' = NumDetections(k)
  /\ detections' = << >>
  /\ generated' = NoGenerated
  /\ UNCHANGED << voiceVars, overlayVars, componentVars >>

\* One pass of `for (let i = 0; i < numDetections; i++) detections.push({...})`.
detectionLoopPush(kt, kc, kx, ky, kw, kh) ==
  /\ Len(detections) < numDetections
  /\ detections' = Append(detections, Detection(kt, kc, kx, ky, kw, kh))
  /\ UNCHANGED << numDetections, generated, voiceVars, overlayVars, componentVars >>

\* The loop is over: the description (and revision 1's score) is computed from
\* the array and the result is returned.
detectionLoopReturn(kv) ==
  /\ numDetections > 0
  /\ Len(detections) = numDetections
  /\ numDetections' = 0
  /\ generated' = [description_text |-> Description(detections, kv),
                   confidence_score |-> ConfidenceScore(detections)]
  /\ UNCHANGED << detections, voiceVars, overlayVars, componentVars >>

\* -------------------------------------------------------- voice selection
\* The pipeline specifications keep of the voice list only whether it is
\* empty (voicesLoaded); the choice of a voice is made in SpecVoice.

\* SpeechSynthesisVoice: lang and name.
Voices == [lang : {"en-US", "de-DE"}, name : {"Google", "System"}]

\* voice.lang.startsWith('en')
IsEnglish(v) == v.lang \in {"en-US"}

\* voice.name.includes('Google') || voice.name.includes('Microsoft') || ...
IsPreferredName(v) == v.name \in {"Google"}

RECURSIVE FindFirst(_, _, _)
\* voices.find(voice => voice is one of S), searched from index i: the first
\* match, or NoVoice.
FindFirst(vs, S, i) ==
  IF i > Len(vs) THEN NoVoice
  ELSE IF vs[i] \in S THEN vs[i]
  ELSE FindFirst(vs, S, i + 1)

\* The voices that pass the tests of the two revisions.
EnglishVoices == {v \in Voices : IsEnglish(v)}
PreferredNames == {v \in Voices : IsPreferredName(v)}

\* Revision 1 (speakWithEnhancedVoice): preferredVoices[0] of the English
\* voices with a preferred name, else the first English voice, else voices[0].
\* Revision 2 (enhancedTextToSpeech): the first voice with a preferred name,
\* whatever its language, else none.
SelectVoice(vs) ==
  IF variant = 1
    THEN LET preferred == FindFirst(vs, EnglishVoices \cap PreferredNames, 1)
             english == FindFirst(vs, EnglishVoices, 1)
         IN  IF preferred # NoVoice THEN preferred
             ELSE IF vs = << >> THEN NoVoice
             ELSE IF english # NoVoice THEN english
             ELSE vs[1]
    ELSE FindFirst(vs, PreferredNames, 1)

\* The engine's voice list is (re)populated.
voicesListed(vs) ==
  /\ voices' = vs
  /\ UNCHANGED << utteranceVoice, genVars, overlayVars, componentVars >>

\* const voices = speechSynthesis.getVoices(); utterance.voice = ...
selectVoice ==
  /\ utteranceVoice' = SelectVoice(voices)
  /\ UNCHANGED << voices, genVars, overlayVars, componentVars >>

\* ------------------------------------------------------------ the overlay
\* The pipeline specifications keep of the result only which run it came
\* from; the detections it carries and their drawing are followed in
\* SpecOverlay.

\* video.videoWidth || video.clientWidth, video.videoHeight || video.clientHeight
VideoSizes == {<< 640, 360 >>, << 1280, 720 >>}

\* What is drawn for the detections ds on a surface of the given size.
\* Revision 2 (canvas): strokeRect at detection.x / 100 * canvas.width, ...,
\* in pixels times 100 * Grain, with the label `${object} ${toFixed(1)}%`.
\* Revision 1 (JSX): a div at left (bbox.x / 640) * 100 %, ..., kept as
\* bbox.x * 100 (the percentage times 640 * Grain), with the label
\* `${type} (${Math.round(confidence * 100)}%)`.
Overlay(ds, size) ==
  IF variant = 1
    THEN {[index  |-> i,
           x      |-> ds[i].x * 100,
           y      |-> ds[i].y * 100,
           width  |-> ds[i].width * 100,
           height |-> ds[i].height * 100,
           label  |-> [name |-> ds[i].object, num |-> Round(ds[i].confidence, Grain)]]
          : i \in DOMAIN ds}
    ELSE {[index  |-> i,
           x      |-> ds[i].x * size[1],
           y      |-> ds[i].y * size[2],
           width  |-> ds[i].width * size[1],
           height |-> ds[i].height * size[2],
           label  |-> [name |-> ds[i].object, num |-> ToFixed1(ds[i].confidence)]]
          : i \in DOMAIN ds}

\* setResult(result) (revision 1: and setDetectedObjects) with the result the
\* generator returned.  Revision 1's overlay is JSX, rendered from
\* detectedObjects in the same commit; revision 2's canvas is left as it is
\* until drawDetectionBoxes runs.
setResult ==
  /\ generated # NoGenerated
  /\ resultDetections # [present |-> TRUE, list |-> detections]
  /\ resultDetections' = [present |-> TRUE, list |-> detections]
  /\ canvas' = IF variant = 1
                 THEN [width |-> 0, height |-> 0, boxes |-> Overlay(detections, << 0, 0 >>)]
                 ELSE canvas
  /\ UNCHANGED << genVars, voiceVars, componentVars >>

\* drawDetectionBoxes without the resize and clearRect: the boxes are drawn
\* over what the canvas holds.
drawDetectionBoxesNoClear(size) ==
  /\ variant = 2
  /\ canvas' = IF ~resultDetections.present
                 THEN canvas
                 ELSE [width |-> size[1], height |-> size[2],
                       boxes |-> canvas.boxes \cup Overlay(resultDetections.list, size)]
  /\ UNCHANGED << resultDetections, genVars, voiceVars, componentVars >>

\* drawDetectionBoxes without the test of result: before a result is stored it
\* draws the detections generated so far.
drawDetectionBoxesNoResultTest(size) ==
  /\ variant = 2
  /\ canvas' = [width |-> size[1], height |-> size[2],
                boxes |-> Overlay(IF resultDetections.present
                                    THEN resultDetections.list ELSE detections, size)]
  /\ UNCHANGED << resultDetections, genVars, voiceVars, componentVars >>

\* Revision 2's drawDetectionBoxes, called by the video's loadedmetadata and
\* timeupdate events with the video at the given size: nothing without a
\* result; else the canvas is resized, cleared and the boxes are drawn.
drawDetectionBoxes(size) ==
  /\ variant = 2
  /\ canvas' = IF ~resultDetections.present
                 THEN canvas
                 ELSE [width |-> size[1], height |-> size[2],
                       boxes |-> Overlay(resultDetections.list, size)]
  /\ UNCHANGED << resultDetections, genVars, voiceVars, componentVars >>

\* --------------------------------------------------------- the controls
\* The submit button disabled only by !selectedFile.
submitButtonWhileProcessing ==
  /\ selectedFile # NoFile
  /\ handleSubmit

\* <Button onClick={handleSubmit} disabled={!selectedFile || isProcessing}>
submitButton ==
  /\ ~(selectedFile = NoFile \/ isProcessing)
  /\ handleSubmit

\* <Button onClick={isRecording ? stopLiveRecording : startLiveRecording}>
recordButton == IF isRecording THEN stopLiveRecording ELSE startLiveRecording

\* <Button onClick={... speakWithEnhancedVoice(...)} disabled={isSpeaking}>
playAudioButton ==
  /\ ~isSpeaking
  /\ playAudioHandler

\* <Button onClick={() => speechSynthesis.cancel()} disabled={!isSpeaking}>
stopSpeechButton ==
  /\ isSpeaking
  /\ stopSpeechHandler

\* What happens without the user: timers, continuations, engine and device events.
Async ==
  \/ \E r \in RunIds : simulateAdvancedDetection(r)
  \/ \E r \in RunIds : simulateAdvancedProcessing(r)
  \/ \E r \in RunIds : handleSubmitResume(r)
  \/ speakWithEnhancedVoiceResume
  \/ \E r \in RunIds : handleSubmitTail(r)
  \/ speechTimerFires
  \/ voiceschanged
  \/ utteranceStart
  \/ utteranceEnd
  \/ utteranceError
  \/ cancelledEvent
  \/ \E granted \in BOOLEAN, recorderOk \in BOOLEAN :
       startLiveRecordingResume(granted, recorderOk)
  \/ \E s \in StreamIds : recorderOnstop(s)

\* The bounds of the model, applied where a user action would exceed them.
RoomForSpeech == SpeechLoad < MaxSpeech
RoomForCapture == camRequests + Cardinality(InUse) < MaxCapture
RoomForUrls == objectUrls + Cardinality(ActiveRuns) < MaxUrls

\* The component as the page drives it: every handler behind its control.  The
\* camera is asked for one capture at a time (RoomForCapture).
Next ==
  \/ \E f \in UploadFiles \cup {NoFile} : handleFileSelect(f)
  \/ RoomForSpeech /\ RoomForUrls /\ submitButton
  \/ (isRecording \/ RoomForCapture) /\ recordButton
  \/ RoomForSpeech /\ playAudioButton
  \/ stopSpeechButton
  \/ RoomForSpeech /\ replayHandler
  \/ Async

Spec == Init /\ [][Next]_vars

\* The page, plus the two handlers called where their control would not call
\* them: handleSubmit with no file selected (the submit button is disabled
\* then) and stopLiveRecording with no capture running (the record button
\* calls startLiveRecording then).
NextDirect ==
  \/ Next
  \/ selectedFile = NoFile /\ handleSubmit
  \/ ~isRecording /\ stopLiveRecording

SpecDirect == Init /\ [][NextDirect]_vars

\* The acquisition side alone, with any file picked and the record button
\* pressed freely: several permission requests may be pending and several
\* streams in use.
NextCapture ==
  \/ \E f \in UploadFiles \cup OtherFiles \cup {NoFile} : handleFileSelect(f)
  \/ (isRecording \/ camRequests < MaxRequests) /\ recordButton
  \/ \E granted \in BOOLEAN, recorderOk \in BOOLEAN :
       startLiveRecordingResume(granted, recorderOk)
  \/ \E s \in StreamIds : recorderOnstop(s)

SpecCapture == Init /\ [][NextCapture]_vars

\* What the event loop guarantees: a queued continuation runs (weak fairness:
\* it stays enabled until it runs), and a task that is due again and again
\* is eventually run (strong fairness: other tasks may run in between): a timer
\* fires, the engine begins and finishes the utterance it speaks and dispatches
\* the events it owes, a stopped recorder fires onstop.  Nothing is promised
\* about the user, about the permission prompt, or about 'voiceschanged'.
Fairness ==
  /\ \A r \in RunIds : SF_vars(simulateAdvancedDetection(r))
  /\ \A r \in RunIds : SF_vars(simulateAdvancedProcessing(r))
  /\ \A r \in RunIds : WF_vars(handleSubmitResume(r))
  /\ WF_vars(speakWithEnhancedVoiceResume)
  /\ \A r \in RunIds : WF_vars(handleSubmitTail(r))
  /\ SF_vars(speechTimerFires)
  /\ SF_vars(utteranceStart)
  /\ SF_vars(utteranceEnd)
  /\ SF_vars(cancelledEvent)
  /\ \A s \in StreamIds : SF_vars(recorderOnstop(s))

FairSpec == Init /\ [][Next]_vars /\ Fairness

\* The capture side under the event loop's guarantee for it: a stopped
\* recorder fires onstop.  Nothing is promised about the user or the prompt.
FairCapture ==
  Init /\ [][NextCapture]_vars /\ \A s \in StreamIds : SF_vars(recorderOnstop(s))

\* The detection generator on its own: results are generated one after the
\* other from every draw of Math.random() the bounds admit.
NextSim ==
  \/ \E k \in CountDraws : detectionLoopStart(k)
  \/ \E kt \in BoxDraws, kc \in MidDraws, kx \in BoxDraws, ky \in BoxDraws,
        kw \in BoxDraws, kh \in BoxDraws :
       detectionLoopPush(kt, kc, kx, ky, kw, kh)
  \/ \E kv \in BoxDraws : detectionLoopReturn(kv)

SpecSim == Init /\ [][NextSim]_vars

\* Voice selection on its own: over every voice list the bounds admit.
VoiceLists == UNION {[1 .. n -> Voices] : n \in 0 .. MaxVoices}

NextVoice ==
  \/ \E vs \in VoiceLists : voicesListed(vs)
  \/ selectVoice

SpecVoice == Init /\ [][NextVoice]_vars

\* The overlay on its own: results are generated (boxes differing in their
\* horizontal position), stored and drawn.
NextOverlay ==
  \/ \E k \in CountDraws : detectionLoopStart(k)
  \/ \E kx \in BoxDraws : detectionLoopPush(0, 0, kx, 0, 0, 0)
  \/ detectionLoopReturn(0)
  \/ setResult
  \/ \E size \in VideoSizes : drawDetectionBoxes(size)

SpecOverlay == Init /\ [][NextOverlay]_vars

\* ================================================================ claims

\* A run is superseded once the selected file is no longer the file it was
\* started on.
Superseded(r) == runs[r].pc # "idle" /\ runs[r].file # selectedFile

\* C1: when a new file is selected while a detection run is in flight, the
\* result of that run is never stored: every result that setResult stores
\* belongs to the file that is selected at that moment.
C1_NoStaleResult ==
  [][result' # result => result'.file = selectedFile]_vars

\* C2: once a new asset has been selected during a run, no later stage of the
\* superseded run changes processingProgress or emits a progress notification.
C2_SupersededRunIsSilent ==
  [][\A r \in RunIds :
       (runs[r].pc = "stages" /\ Superseded(r))
         => (runs'[r].emitted = runs[r].emitted
               /\ processingProgress' = processingProgress)]_vars

\* C3: accepting a file in handleFileSelect while a run is in flight cancels
\* the run at once: isProcessing is false after the step.
C3_SelectCancelsProcessing ==
  [][(isProcessing /\ \E f \in UploadFiles : handleFileSelect(f))
       => ~isProcessing']_vars

\* C4: handleSubmit with no asset selected never enters Processing:
\* isProcessing stays false, no run is started, result and progress are
\* unchanged, and a destructive (error) notification is raised.
C4_SubmitWithoutFileRejected ==
  [][(selectedFile = NoFile /\ handleSubmit)
       => (/\ ~isProcessing /\ ~isProcessing'
           /\ runs' = runs
           /\ ActiveRuns = {}
           /\ result' = result
           /\ processingProgress' = processingProgress
           /\ toast' = Toast("No File Selected", TRUE))]_vars

\* C4 witness: the rejection has happened: the error notification is up, no
\* asset is selected and nothing is being processed.
C4_Witness ==
  /\ toast = Toast("No File Selected", TRUE)
  /\ selectedFile = NoFile
  /\ ~isProcessing

C6_SpeakingClearedOnEnd ==
  variant = 1 =>
    /\ speechEvent \in {"end", "error"} => ~isSpeaking
    /\ (speechEvent = "cancel" /\ synthCancelled = 0) => ~isSpeaking

\* C7: the wait for the voice list is bounded: a speak call that waits for
\* the voice list eventually stops waiting, also when 'voiceschanged' never
\* fires.
C7_VoiceWaitBounded == (voiceWaiters # << >>) ~> (voiceWaiters = << >>)

\* C8: every accepted submit eventually leaves Processing, whatever the
\* speech engine does, and a result is stored only after progress has
\* reached 100.
C8_SubmitLeavesProcessing ==
  /\ isProcessing ~> ~isProcessing
  /\ [][(variant = 2 /\ result' # result)
          => processingProgress = 100 * NumStages]_vars

\* C9: within one detection run progress starts at 0 and advances to 100 in
\* equal steps, one progress event per stage, in stage order: after k stages
\* the events of the run are 1/n, 2/n, ..., k/n of 100, the progress value is
\* the last of them (0 before the first), and the run returns only after all
\* n events.
C9_ProgressInStageOrder ==
  \A r \in RunIds :
    (variant = 2 /\ runs[r].pc \in {"stages", "resume"}) =>
      /\ runs[r].stage \in 0 .. NumStages
      /\ runs[r].emitted = [k \in 1 .. runs[r].stage |-> k * 100]
      /\ processingProgress = runs[r].stage * 100
      /\ runs[r].pc = "resume" =>
           (runs[r].stage = NumStages /\ processingProgress = 100 * NumStages)

\* C9 witness: a run has gone through all its stages and is about to deliver.
C9_Witness ==
  \E r \in RunIds :
    /\ variant = 2
    /\ runs[r].pc = "resume"
    /\ Len(runs[r].emitted) = NumStages

\* C10: only one live capture is active at a time: a second start does not
\* create a second stream, and no camera stream runs without being the one
\* mediaStream refers to.
C10_OneCapture ==
  /\ Cardinality(liveStreams) <= 1
  /\ liveStreams \subseteq {mediaStream}

\* C11: after a successful startLiveRecording, stopLiveRecording stops every
\* track of the camera stream, detaches the preview, clears isRecording and
\* stops the recorder; the stopped recorder's clip then eventually becomes the
\* selected file.
C11_StopDeliversRecording ==
  /\ [][(isRecording /\ stopLiveRecording)
          => (/\ mediaStream # 0 /\ mediaRecorder # 0
              /\ mediaStream \notin liveStreams'
              /\ previewSrc' = 0
              /\ ~isRecording'
              /\ recState'[mediaRecorder] = "stopping")]_vars
  /\ \A s \in StreamIds :
       (recState[s] = "stopping")
          ~> (recState[s] = "none" /\ selectedFile = RecordedFile)

\* C11 witness: a recording was started and stopped and its clip has arrived:
\* the clip is selected, nothing records, no track is live, no preview bound.
C11_Witness ==
  /\ toast = Toast("Recording Saved", FALSE)
  /\ selectedFile = RecordedFile
  /\ ~isRecording
  /\ liveStreams = {}
  /\ previewSrc = 0
  /\ \A s \in StreamIds : recState[s] = "none"

\* C12: stopLiveRecording with no capture active is a no-op: the selected
\* file, the result, isProcessing and the progress are unchanged, isRecording
\* remains false, and no recorder is stopped (no clip will arrive).
C12_StopWithoutCaptureIsNoOp ==
  [][(~isRecording /\ stopLiveRecording)
       => (/\ selectedFile' = selectedFile
           /\ result' = result
           /\ isProcessing' = isProcessing
           /\ processingProgress' = processingProgress
           /\ ~isRecording'
           /\ recState' = recState)]_vars

\* C12 witness: nothing is being captured while there is something to keep: a
\* file is selected, a result is stored and a run is under way with progress
\* made.  stopLiveRecording called here leaves this very state.
C12_Witness ==
  /\ ~isRecording /\ mediaStream = 0 /\ mediaRecorder = 0
  /\ selectedFile # NoFile
  /\ result # NoResult
  /\ isProcessing
  /\ processingProgress > 0

C14_NoSubmitAfterFailure ==
  [][toast = Toast("Processing Failed", TRUE) => ~submitButton]_vars

\* C15: a synthesis error (onerror, for the utterance being spoken or for a
\* cancelled one) leaves isSpeaking false and touches nothing of the pipeline:
\* the result, isProcessing, the runs and the last notification are unchanged
\* (no processing failure is reported).
C15_SynthesisErrorIsLocal ==
  [][(utteranceError \/ cancelledEvent)
       => (/\ ~isSpeaking'
           /\ result' = result
           /\ isProcessing' = isProcessing
           /\ runs' = runs
           /\ toast' = toast)]_vars

\* C15 witness: revision 1 has stored a result and completed the submit, and a
\* synthesis error was the last speech event.
C15_Witness ==
  /\ variant = 1
  /\ speechEvent = "error"
  /\ result # NoResult
  /\ ~isSpeaking
  /\ toast = Toast("Processing Complete", FALSE)

\* C16: at most one video resource handle (an object URL created for a run)
\* is unreleased at any time.
C16_OneUrlUnreleased == objectUrls <= 1

\* C17: accepting a file in handleFileSelect cancels the speech in flight: no
\* utterance is left in the engine and isSpeaking is false after the step.
C17_SelectCancelsSpeech ==
  [][((Speaking \/ isSpeaking) /\ \E f \in UploadFiles : handleFileSelect(f))
       => (synthQueue' = << >> /\ ~isSpeaking')]_vars

\* C18: the pipeline is never recording and processing at once, and never
\* processing with no file selected.
C18_OnePipelineState ==
  /\ ~(isRecording /\ isProcessing)
  /\ isProcessing => selectedFile # NoFile

\* A file whose declared type is video.
IsVideo(f) == f # NoFile /\ FileType(f) \in {"video/mp4", "video/webm"}

\* C19: handleFileSelect accepts only a file whose declared type is video:
\* given no file or a file of another type it leaves the selected file
\* unchanged and reports the error.
C19_OnlyVideoAccepted ==
  [][\A f \in UploadFiles \cup OtherFiles \cup {NoFile} :
       (~IsVideo(f) /\ handleFileSelect(f))
         => (selectedFile' = selectedFile /\ toast'.destructive)]_vars

\* C20: every generated detection's bounding box is frame-relative and inside
\* the frame: x >= 0, y >= 0, x + width <= 1 and y + height <= 1, as fractions
\* of the frame (1 is kept as Grain).
C20_BoxInsideFrame ==
  \A i \in DOMAIN detections :
    /\ detections[i].x >= 0
    /\ detections[i].y >= 0
    /\ detections[i].x + detections[i].width <= Grain
    /\ detections[i].y + detections[i].height <= Grain

\* C27: in revision 1, whenever an utterance is being spoken isSpeaking is
\* true: the event of an utterance that cancel() removed never clears
\* isSpeaking while its successor plays.
C27_SpeakingWhileSpoken ==
  (variant = 1 /\ synthQueue # << >> /\ Head(synthQueue).started) => isSpeaking

\* C28: at most one detection run is in flight at any time, it is in flight
\* exactly while isProcessing is true, and no step starts a run while
\* isProcessing is true.
C28_OneRunInFlight ==
  /\ [](Cardinality(ActiveRuns) <= 1)
  /\ []((ActiveRuns # {}) <=> isProcessing)
  /\ [][isProcessing => ActiveRuns' \subseteq ActiveRuns]_vars

\* C28 witness: a second run is in flight, started after the first one had
\* delivered its result.
C28_Witness ==
  /\ isProcessing
  /\ Cardinality(ActiveRuns) = 1
  /\ result # NoResult

\* C29: whenever isRecording is false no camera track is live.
C29_NoTrackUnlessRecording == ~isRecording => liveStreams = {}

\* C30: whenever isProcessing is false processingProgress is 0.
C30_ProgressZeroWhenIdle == ~isProcessing => processingProgress = 0

\* C30 witness: revision 2 has finished a run, which had brought the progress
\* to 100, and has reset it.
C30_Witness ==
  /\ variant = 2
  /\ ~isProcessing
  /\ result # NoResult
  /\ processingProgress = 0
  /\ toast = Toast("Processing Complete", FALSE)

\* The generator has returned a result for the array in `detections`.
Returned == generated # NoGenerated

\* C21: the result's overall confidence equals the arithmetic mean of its
\* detections' confidences: the score times the number of detections is their
\* sum (and the score is 0 for an empty list).
C21_ScoreIsMean ==
  Returned =>
    /\ generated.confidence_score * Len(detections)
         = SumConfidence(detections, Len(detections))
    /\ detections = << >> => generated.confidence_score = 0

\* The name under which a text mentions a category ('_' reads as a space).
CategoryName(t) ==
  IF t = "zebra_crossing" THEN "zebra crossing"
  ELSE IF t = "traffic_light" THEN "traffic light"
  ELSE t

RECURSIVE FirstSeen(_, _)
\* The distinct elements of the first n elements of seq, in the order of their
\* first occurrence.
FirstSeen(seq, n) ==
  IF n = 0 THEN << >>
  ELSE LET before == FirstSeen(seq, n - 1)
       IN  IF \E i \in DOMAIN before : before[i] = seq[n]
             THEN before
             ELSE Append(before, seq[n])

\* C22: the summary text of a completed run contains the word 'detected' (in
\* either case) and names the categories that occur among the detections, each
\* at least once, in the order in which they are first encountered in the
\* detection list.
C22_SummaryNamesCategories ==
  Returned =>
    LET text == generated.description_text
        categories == [i \in DOMAIN detections |-> CategoryName(detections[i].object)]
        named == [i \in DOMAIN text.items |-> text.items[i].name]
    IN  /\ text.word \in {"detected", "Detected"}
        /\ FirstSeen(named, Len(named)) = FirstSeen(categories, Len(categories))

\* C23: the summary text is a function of the generated detections alone:
\* whatever is drawn when the generator returns, the text it returns for the
\* array is the same.
C23_SummaryDeterministic ==
  [][(\E kv \in BoxDraws : detectionLoopReturn(kv))
       => \A k \in BoxDraws :
            generated'.description_text = Description(detections, k)]_vars

\* C24: the voice chosen for an utterance follows the preference order: the
\* first English voice with a preferred name if there is one, otherwise the
\* first English voice, otherwise any voice of the list; so a non-English voice
\* is never chosen while an English voice is listed.
C24_VoicePreference ==
  [][selectVoice =>
       LET preferred == FindFirst(voices, EnglishVoices \cap PreferredNames, 1)
           english == FindFirst(voices, EnglishVoices, 1)
       IN  /\ preferred # NoVoice => utteranceVoice' = preferred
           /\ (preferred = NoVoice /\ english # NoVoice) => utteranceVoice' = english
           /\ (english = NoVoice /\ voices # << >>)
                => \E i \in DOMAIN voices : utteranceVoice' = voices[i]]_vars

\* A call of drawDetectionBoxes, at any size of the video.
Redraw == \E size \in VideoSizes : drawDetectionBoxes(size)

\* C25: redrawing the overlay is idempotent.  Whatever the canvas held, after
\* drawDetectionBoxes it holds exactly the boxes of the current result at the
\* canvas's size, so a second call with the same result at the same size
\* leaves it as the first did.
C25_RedrawIdempotent ==
  [][(Redraw /\ resultDetections.present)
       => /\ canvas'.boxes =
               Overlay(resultDetections.list, << canvas'.width, canvas'.height >>)
          /\ (canvas.boxes =
                 Overlay(resultDetections.list, << canvas'.width, canvas'.height >>)
               /\ canvas.width = canvas'.width /\ canvas.height = canvas'.height)
              => canvas' = canvas]_vars

\* A second result has been drawn over the drawing of an earlier, different
\* one, at the other size.
C25_Witness ==
  /\ variant = 2
  /\ resultDetections.present
  /\ canvas.width = 1280
  /\ canvas.boxes # {}
  /\ canvas.boxes = Overlay(resultDetections.list, << 1280, 720 >>)
  /\ \E i \in DOMAIN resultDetections.list : resultDetections.list[i].x # 0

\* C26: nothing is drawn over the video while result is null.
C26_NoOverlayWithoutResult == ~resultDetections.present => canvas.boxes = {}

\* The generator has returned detections, the result is not stored yet, and
\* the overlay is empty.
C26_Witness ==
  /\ ~resultDetections.present
  /\ generated # NoGenerated
  /\ detections # << >>
  /\ canvas.boxes = {}

====
